---- MODULE Spec2Model ----
(***************************************************************************)
(* Model of dion-reloaded (src/src/App.tsx): the ASTCanvasRenderer         *)
(* viewport state machine (wheel zoom, pointer pan, updateSettings,        *)
(* render) together with the DionPage glue that feeds it (React state,     *)
(* the two parse timers, the effects that push settings and zoom level).   *)
(***************************************************************************)
EXTENDS Integers, Sequences, FiniteSets, TLC

\* ------------------------------------------------------------------------
\* Bounds of the exploration
\* ------------------------------------------------------------------------
MaxTimers == 3      \* pending setTimeout callbacks (two per edit)
MaxCoord == 1       \* pointer coordinates are drawn from 0..MaxCoord
MaxPan == 1         \* |panX|, |panY| explored up to this value
MaxMoves == 2       \* mousemove events counted per drag
MaxNest == 2        \* scopes nested inside one another in a generated statement
MaxChain == 3       \* else-if links of a generated if / else if / else chain
SafetyCap == 4      \* a recursion depth a safety cap would stop at (the source names none)

\* ------------------------------------------------------------------------
\* Syntax trees.  A node is [kind, children, elseStatement, newline];
\* elseStatement is the index in children of an IfStatement's else branch
\* (0 if none); newline says that the node's source text spans several lines.
\* ------------------------------------------------------------------------
Leaf(kind) == [kind |-> kind, children |-> <<>>, elseStatement |-> 0, newline |-> FALSE]

Node(kind, children) ==
    [kind |-> kind, children |-> children, elseStatement |-> 0, newline |-> FALSE]

If(expression, thenStatement) ==
    [kind |-> "IfStatement", children |-> <<expression, thenStatement>>,
     elseStatement |-> 0, newline |-> FALSE]

IfElse(expression, thenStatement, elseStatement) ==
    [kind |-> "IfStatement", children |-> <<expression, thenStatement, elseStatement>>,
     elseStatement |-> 3, newline |-> FALSE]

Return == Node("ReturnStatement", <<Leaf("NumericLiteral")>>)

Cond == Leaf("BinaryExpression")

Fn(body) == Node("FunctionDeclaration", <<Leaf("Identifier"), Node("Block", body)>>)

\* The default text of the editor (useState initial value of `code`).
InitialProgram ==
    Node("SourceFile", <<
        Fn(<< Fn(<< IfElse(Cond,
                           Node("Block", <<
                               IfElse(Cond, Node("Block", <<Return>>),
                                   IfElse(Cond, Node("Block", <<Return>>),
                                          Node("Block", <<Return>>))) >>),
                           If(Cond, Node("Block", <<Return>>))),
                    Return >>),
              Return >>),
        Fn(<< Node("ReturnStatement", <<Leaf("BinaryExpression")>>) >>),
        Leaf("EndOfFileToken") >>)

\* x;
ExprProgram ==
    Node("SourceFile", <<Node("ExpressionStatement", <<Leaf("Identifier")>>),
                         Leaf("EndOfFileToken")>>)

\* function f() { if (a) {        (unterminated: the editor reports errors)
BrokenProgram ==
    Node("SourceFile", <<Fn(<<If(Cond, Node("Block", <<>>))>>), Leaf("EndOfFileToken")>>)

\* The texts the user can have in the editor: the tree ts.createSourceFile
\* yields for the text and whether Monaco flags the text with an Error marker.
Sources == <<
    [tree |-> InitialProgram, err |-> FALSE],
    [tree |-> ExprProgram,    err |-> FALSE],
    [tree |-> BrokenProgram,  err |-> TRUE] >>

TextIds == 1..Len(Sources)

NoAst == 0

SetMax(S) == CHOOSE m \in S : \A n \in S : n <= m

isBlockScopeNode(node) ==
    node.kind \in {"FunctionDeclaration", "FunctionExpression", "ArrowFunction",
                   "MethodDeclaration", "Constructor", "GetAccessor", "SetAccessor",
                   "IfStatement", "ForStatement", "ForInStatement", "ForOfStatement",
                   "WhileStatement", "DoStatement", "SwitchStatement", "CaseClause",
                   "DefaultClause", "TryStatement", "CatchClause", "ClassDeclaration",
                   "ModuleDeclaration", "EnumDeclaration", "InterfaceDeclaration"}

\* traverse returns the largest nodeDepth seen in the subtree of currentNode.
\* parentElse says that currentNode is the elseStatement of an IfStatement.
RECURSIVE traverse(_, _, _)

\* traverse that counts an else-if link like any other if statement
traverse_links(currentNode, currentDepth, parentElse) ==
    LET nodeDepth == IF isBlockScopeNode(currentNode) THEN currentDepth + 1
                     ELSE currentDepth
    IN SetMax({nodeDepth} \cup
              { traverse(currentNode.children[i], nodeDepth,
                         currentNode.kind = "IfStatement" /\ currentNode.elseStatement = i)
                : i \in 1..Len(currentNode.children) })

traverse(currentNode, currentDepth, parentElse) ==
    LET isBlockScope == isBlockScopeNode(currentNode)
        isElseIf == currentNode.kind = "IfStatement" /\ parentElse
        nodeDepth == IF isBlockScope /\ ~isElseIf THEN currentDepth + 1 ELSE currentDepth
    IN SetMax({nodeDepth} \cup
              { traverse(currentNode.children[i], nodeDepth,
                         currentNode.kind = "IfStatement" /\ currentNode.elseStatement = i)
                : i \in 1..Len(currentNode.children) })

\* an analysis that starts counting from 0
calculateMaxNestingDepth_zero(node) == SetMax({1, traverse(node, 0, FALSE)})

calculateMaxNestingDepth(node) == SetMax({1, traverse(node, 1, FALSE)})

\* maxDepth of the tree parsed from text t
DepthOf(t) == calculateMaxNestingDepth(Sources[t].tree)

\* ------------------------------------------------------------------------
\* Programs given to the analyzer and to the painter on their own
\* ------------------------------------------------------------------------
Block(statements) == Node("Block", statements)

SourceFile(statements) == Node("SourceFile", statements \o <<Leaf("EndOfFileToken")>>)

\* const x = 1
VarPlain ==
    Node("VariableStatement", <<Node("VariableDeclarationList",
        <<Node("VariableDeclaration", <<Leaf("Identifier"), Leaf("NumericLiteral")>>)>>)>>)

\* const f = () => { body }
VarArrow(body) ==
    Node("VariableStatement", <<Node("VariableDeclarationList",
        <<Node("VariableDeclaration",
               <<Leaf("Identifier"),
                 Node("ArrowFunction", <<Leaf("EqualsGreaterThanToken"), Block(body)>>)>>)>>)>>)

\* g();
CallStatement ==
    Node("ExpressionStatement", <<Node("CallExpression", <<Leaf("Identifier")>>)>>)

\* x++;
PostfixStatement ==
    Node("ExpressionStatement", <<Node("PostfixUnaryExpression", <<Leaf("Identifier")>>)>>)

\* the text of a node holds a line break when the text of a descendant does
RECURSIVE spansLines(_)
spansLines(node) ==
    node.newline \/ \E i \in DOMAIN node.children : spansLines(node.children[i])

\* while (c) { body }: the children as getChildren lists them, keyword and
\* parentheses included; newline tells a loop written on several lines from
\* one written on a single line
While(body, newline) ==
    [kind |-> "WhileStatement",
     children |-> <<Leaf("WhileKeyword"), Leaf("OpenParenToken"), Cond,
                    Leaf("CloseParenToken"), Block(body)>>,
     elseStatement |-> 0,
     newline |-> newline \/ \E i \in DOMAIN body : spansLines(body[i])]

\* function f(a, b): T { body }
FnSig(body) ==
    Node("FunctionDeclaration", <<Leaf("Identifier"), Leaf("Parameter"), Leaf("Parameter"),
                                  Leaf("TypeReference"), Block(body)>>)

\* if (c) { return } else if (c) { return } ... else { return }, k else-if links
RECURSIVE Chain(_)
Chain(k) ==
    IF k = 0 THEN IfElse(Cond, Block(<<Return>>), Block(<<Return>>))
    ELSE IfElse(Cond, Block(<<Return>>), Chain(k - 1))

\* s wrapped in e function declarations
RECURSIVE Enclosed(_, _)
Enclosed(e, s) == IF e = 0 THEN s ELSE Fn(<<Enclosed(e - 1, s)>>)

SimpleStatements == {Return, PostfixStatement}

\* the statements with at most d scopes nested inside one another
RECURSIVE Statements(_)
Statements(d) ==
    IF d = 0 THEN SimpleStatements
    ELSE LET S == Statements(d - 1)
         IN SimpleStatements
            \cup {Fn(<<s>>) : s \in S}
            \cup {If(Cond, Block(<<s>>)) : s \in S}
            \cup {IfElse(Cond, Block(<<Return>>), If(Cond, Block(<<s>>))) : s \in S}
            \cup {While(<<s>>, nl) : s \in S, nl \in BOOLEAN}
            \cup {VarArrow(<<s>>) : s \in S}

\* function f(){ if(a){ if(b){ return 1 } } }
NestedIfProgram ==
    SourceFile(<<Fn(<<If(Cond, Block(<<If(Cond, Block(<<Return>>))>>))>>)>>)

\* if(a){1}else if(b){2}else{3}
ElseIfProgram ==
    SourceFile(<<IfElse(Cond, Block(<<Node("ExpressionStatement", <<Leaf("NumericLiteral")>>)>>),
                   IfElse(Cond, Block(<<Node("ExpressionStatement", <<Leaf("NumericLiteral")>>)>>),
                          Block(<<Node("ExpressionStatement", <<Leaf("NumericLiteral")>>)>>)))>>)

\* function f(){ const x = 1; g(); x; x++; return 1 }
SiblingsProgram ==
    SourceFile(<<Fn(<<VarPlain, CallStatement,
                      Node("ExpressionStatement", <<Leaf("Identifier")>>),
                      PostfixStatement, Return>>)>>)

Programs ==
    {SourceFile(<<s>>) : s \in Statements(MaxNest)}
    \cup {SourceFile(<<Enclosed(e, Chain(k))>>) : e \in 0..MaxNest, k \in 0..MaxChain}
    \cup {SourceFile(<<Enclosed(e, FnSig(<<VarPlain, Return>>)), CallStatement>>) :
              e \in 0..(MaxNest + 1)}
    \cup {InitialProgram, ExprProgram, NestedIfProgram, ElseIfProgram, SiblingsProgram}

\* ------------------------------------------------------------------------
\* The paint pass of ASTCanvasRenderer.  A routine takes the node, its path
\* from the root (child indices), the arguments of the TypeScript method and
\* the canvas context st = [cmds, fillStyle, visited, tested, sourceFile]
\* (sourceFile: this.sourceFile is set); it yields the y it returns and the
\* context it leaves.  r holds the renderer's settings.
\* ------------------------------------------------------------------------
lineHeight == 18

fontSize == 14

indent == 20

\* this.renderNode(ast, 20, 20, 0, 1): where a pass starts
originX == 20

colors == [keyword |-> "#0000ff", string |-> "#008000", identifier |-> "#333333",
           type |-> "#2b91af", punctuation |-> "#333333", default |-> "#333333"]

\* ctx.fillStyle keeps a colour in its serialised form
serialised(color) ==
    CASE color = "#333" -> "#333333"
      [] color = "orange" -> "#ffa500"
      [] OTHER -> color

\* the strings the painter writes itself, with their number of characters
length ==
    ("" :> 0) @@ (" " :> 1) @@ ("(" :> 1) @@ (")" :> 1) @@ ("}" :> 1) @@ (";" :> 1)
    @@ (", " :> 2) @@ (": " :> 2) @@ (" {" :> 2) @@ (" (" :> 2) @@ ("if" :> 2)
    @@ ("..." :> 3) @@ ("else" :> 4) @@ ("return" :> 6) @@ ("else if" :> 7)
    @@ ("function" :> 8)

\* number of characters of node.getText(): one per token, one between tokens
RECURSIVE textLength(_)
RECURSIVE textLengths(_)
textLength(node) ==
    IF node.children = <<>> THEN 1 ELSE textLengths(node.children) + Len(node.children) - 1

textLengths(nodes) ==
    IF nodes = <<>> THEN 0 ELSE textLength(Head(nodes)) + textLengths(Tail(nodes))

\* a string handed to fillText: a literal, or a literal followed by the
\* source text of the node at path src[1]
literal(string) == [pre |-> string, src |-> <<>>, len |-> length[string]]

getText(pre, node, path) ==
    [pre |-> pre, src |-> <<path>>, len |-> length[pre] + textLength(node)]

\* ctx.measureText(text).width in the monospace font of fontSize px
measureText(text) == text.len * ((fontSize * 6) \div 10)

setFillStyle(st, color) == [st EXCEPT !.fillStyle = serialised(color)]

\* node: the node on whose behalf the text is written
fillText(st, text, x, y, node) ==
    [st EXCEPT !.cmds = Append(@, [text |-> text, x |-> x, y |-> y,
                                   color |-> st.fillStyle, node |-> node])]

\* bookkeeping: the nodes handed to a routine, and the depths compared
\* against zoomLevel together with the node the comparison decides about
visit(st, path) == [st EXCEPT !.visited = @ \cup {path}]

test(st, path, depth) == [st EXCEPT !.tested = @ \cup {[node |-> path, depth |-> depth]}]

\* a child depth that counts a Block as a level of its own
childDepth_block(node, nestingDepth) ==
    IF isBlockScopeNode(node) \/ node.kind = "Block" THEN nestingDepth + 1 ELSE nestingDepth

\* const childNestingDepth = isBlockScope ? nestingDepth + 1 : nestingDepth
childDepth(node, nestingDepth) ==
    IF isBlockScopeNode(node) THEN nestingDepth + 1 ELSE nestingDepth

\* a truncation test that already collapses the level zoomLevel itself
collapsed_early(r, childNestingDepth) == childNestingDepth >= r.zoomLevel

\* a truncation test with the comparison the wrong way round
collapsed_inverted(r, childNestingDepth) == childNestingDepth < r.zoomLevel

\* if (childNestingDepth > this.zoomLevel)
collapsed(r, childNestingDepth) == childNestingDepth > r.zoomLevel

indices(node) == [i \in 1..Len(node.children) |-> i]

\* SourceFile.statements: the children but the end-of-file token
statements(node) ==
    SelectSeq(indices(node), LAMBDA i : node.children[i].kind # "EndOfFileToken")

parameters(node) ==
    SelectSeq(indices(node), LAMBDA i : node.children[i].kind = "Parameter")

typeOf(node) ==
    SelectSeq(indices(node), LAMBDA i : node.children[i].kind = "TypeReference")

body(node) ==
    SelectSeq(indices(node), LAMBDA i : node.children[i].kind = "Block")

\* the orange "..." line (color reset to #333 where the routine does so)
ellipsis(st, x, y, node, reset) ==
    LET s1 == fillText(setFillStyle(st, "orange"), literal("..."), x, y, node)
    IN IF reset THEN setFillStyle(s1, "#333") ELSE s1

\* one statement after another: value is computed, then F goes on with it
With(value, F(_)) == CHOOSE result \in {F(v) : v \in {value}} : TRUE

RECURSIVE renderNode(_, _, _, _, _, _, _, _)

\* forEach over the children idx of node; gap is added to y after each
RECURSIVE renderEach(_, _, _, _, _, _, _, _, _, _)
renderEach(r, node, path, idx, x, y, indentLevel, nestingDepth, gap, st) ==
    IF idx = <<>> THEN [y |-> y, st |-> st]
    ELSE LET i == Head(idx)
         IN With(renderNode(r, node.children[i], Append(path, i), x, y,
                            indentLevel, nestingDepth, st),
                 LAMBDA res : renderEach(r, node, path, Tail(idx), x, res.y + gap,
                                         indentLevel, nestingDepth, gap, res.st))

renderSourceFile(r, node, path, x, y, indentLevel, nestingDepth, st) ==
    renderEach(r, node, path, statements(node), x, y, indentLevel, nestingDepth,
               lineHeight \div 2, st)

renderBlock(r, node, path, x, y, indentLevel, nestingDepth, st) ==
    LET childNestingDepth == childDepth(node, nestingDepth)
        s0 == test(visit(st, path), path, childNestingDepth)
    IN With(IF collapsed(r, childNestingDepth)
            THEN [y |-> y + lineHeight,
                  st |-> ellipsis(s0, x + (indentLevel + 1) * indent, y, path, TRUE)]
            ELSE renderEach(r, node, path, indices(node), x, y,
                            indentLevel + 1, childNestingDepth, 0, s0),
            LAMBDA inner :
                IF r.showBraces
                THEN [y |-> inner.y + lineHeight,
                      st |-> fillText(setFillStyle(inner.st, colors.punctuation),
                                      literal("}"), x + indentLevel * indent, inner.y, path)]
                ELSE inner)

\* one branch of an if statement: the then-statement of the if or of an
\* else-if link, or the final else
renderBranch(r, branch, path, x, y, indentLevel, childNestingDepth, st) ==
    LET s0 == test(st, path, childNestingDepth)
    IN IF collapsed(r, childNestingDepth)
       THEN [y |-> y + lineHeight,
             st |-> ellipsis(s0, x + (indentLevel + 1) * indent, y, path, TRUE)]
       ELSE IF branch.kind = "Block"
            THEN renderBlock(r, branch, path, x, y, indentLevel, childNestingDepth, s0)
            ELSE renderNode(r, branch, path, x, y, indentLevel + 1, childNestingDepth, s0)

\* keyword ( condition ) {   for "if" and "else if"
renderIfHead(r, keyword, node, path, x, y, st) ==
    LET s1 == fillText(setFillStyle(st, colors.keyword), literal(keyword), x, y, path)
        x1 == x + measureText(literal(keyword))
        s2 == fillText(setFillStyle(s1, colors.punctuation), literal(" ("), x1, y, path)
        x2 == x1 + measureText(literal(" ("))
        conditionText == getText("", node.children[1], Append(path, 1))
        s3 == fillText(setFillStyle(s2, colors.default), conditionText, x2, y, path)
        x3 == x2 + measureText(conditionText)
        s4 == fillText(setFillStyle(s3, colors.punctuation), literal(")"), x3, y, path)
        x4 == x3 + measureText(literal(")"))
    IN IF r.showBraces THEN fillText(s4, literal(" {"), x4, y, path) ELSE s4

\* the while (currentElse) loop; holder is the if whose elseStatement is next
RECURSIVE renderElse(_, _, _, _, _, _, _, _)
renderElse(r, holder, path, x, y, indentLevel, childNestingDepth, st) ==
    IF holder.elseStatement = 0 THEN [y |-> y, st |-> st]
    ELSE LET currentElse == holder.children[holder.elseStatement]
             elsePath == Append(path, holder.elseStatement)
             elseIndentX == x + indentLevel * indent
         IN IF currentElse.kind = "IfStatement"
            THEN LET s1 == renderIfHead(r, "else if", currentElse, elsePath,
                                        elseIndentX, y, visit(st, elsePath))
                 IN With(renderBranch(r, currentElse.children[2], Append(elsePath, 2),
                                      x, y + lineHeight, indentLevel,
                                      childNestingDepth, s1),
                         LAMBDA then : renderElse(r, currentElse, elsePath, x, then.y,
                                                  indentLevel, childNestingDepth, then.st))
            ELSE LET s1 == fillText(setFillStyle(st, colors.keyword), literal("else"),
                                    elseIndentX, y, path)
                     s2 == IF r.showBraces
                           THEN fillText(setFillStyle(s1, colors.punctuation), literal(" {"),
                                         elseIndentX + measureText(literal("else")), y, path)
                           ELSE s1
                 IN renderBranch(r, currentElse, elsePath, x, y + lineHeight,
                                 indentLevel, childNestingDepth, s2)

renderIfStatement(r, node, path, x, y, indentLevel, nestingDepth, st) ==
    LET indentX == x + indentLevel * indent
        childNestingDepth == childDepth(node, nestingDepth)
        s1 == renderIfHead(r, "if", node, path, indentX, y, st)
    IN With(renderBranch(r, node.children[2], Append(path, 2), x, y + lineHeight,
                         indentLevel, childNestingDepth, s1),
            LAMBDA then : renderElse(r, node, path, x, then.y, indentLevel,
                                     childNestingDepth, then.st))

\* node.parameters.forEach; yields the context and currentX
RECURSIVE renderParameters(_, _, _, _, _, _, _)
renderParameters(node, path, idx, first, currentX, y, st) ==
    IF idx = <<>> THEN [x |-> currentX, st |-> st]
    ELSE LET s1 == IF first THEN st
                   ELSE fillText(setFillStyle(st, colors.punctuation), literal(", "),
                                 currentX, y, path)
             x1 == IF first THEN currentX ELSE currentX + measureText(literal(", "))
             paramText == getText("", node.children[Head(idx)], Append(path, Head(idx)))
             s2 == fillText(setFillStyle(s1, colors.identifier), paramText, x1, y, path)
         IN renderParameters(node, path, Tail(idx), FALSE, x1 + measureText(paramText), y, s2)

renderFunctionDeclaration(r, node, path, x, y, indentLevel, nestingDepth, st) ==
    LET indentX == x + indentLevel * indent
        childNestingDepth == childDepth(node, nestingDepth)
        s1 == fillText(setFillStyle(st, colors.keyword), literal("function"), indentX, y, path)
        x1 == indentX + measureText(literal("function"))
        hasName == node.children # <<>> /\ node.children[1].kind = "Identifier"
        nameText == getText(" ", node.children[1], Append(path, 1))
        s2 == IF hasName
              THEN fillText(setFillStyle(s1, colors.identifier), nameText, x1, y, path)
              ELSE s1
        x2 == IF hasName THEN x1 + measureText(nameText) ELSE x1
        s3 == fillText(setFillStyle(s2, colors.punctuation), literal("("), x2, y, path)
        params == renderParameters(node, path, parameters(node), TRUE,
                                   x2 + measureText(literal("(")), y, s3)
        s4 == fillText(setFillStyle(params.st, colors.punctuation), literal(")"),
                       params.x, y, path)
        x4 == params.x + measureText(literal(")"))
        hasType == typeOf(node) # <<>>
        typeText == getText("", node.children[typeOf(node)[1]], Append(path, typeOf(node)[1]))
        s5 == IF hasType
              THEN fillText(setFillStyle(
                       fillText(setFillStyle(s4, colors.punctuation), literal(": "), x4, y, path),
                       colors.type), typeText, x4 + measureText(literal(": ")), y, path)
              ELSE s4
        x5 == IF hasType THEN x4 + measureText(literal(": ")) + measureText(typeText) ELSE x4
        s6 == IF r.showBraces
              THEN fillText(setFillStyle(s5, colors.punctuation), literal(" {"), x5, y, path)
              ELSE s5
        s7 == test(s6, path, childNestingDepth)
    IN IF collapsed(r, childNestingDepth)
       THEN LET s8 == ellipsis(s7, x + (indentLevel + 1) * indent, y + lineHeight,
                               path, FALSE)
            IN IF r.showBraces
               THEN [y |-> y + 3 * lineHeight,
                     st |-> fillText(setFillStyle(s8, colors.punctuation), literal("}"),
                                     indentX, y + 2 * lineHeight, path)]
               ELSE [y |-> y + 2 * lineHeight, st |-> s8]
       ELSE IF body(node) # <<>>
            THEN renderBlock(r, node.children[body(node)[1]], Append(path, body(node)[1]),
                             x, y + lineHeight, indentLevel, childNestingDepth, s7)
            ELSE [y |-> y + lineHeight, st |-> s7]

\* text of the node at (x, y) in the given color, then ";" if semicolons show
renderLine(r, node, path, x, y, color, semicolon, st) ==
    LET text == getText("", node, path)
        s1 == fillText(setFillStyle(st, color), text, x, y, path)
    IN [y |-> y + lineHeight,
        st |-> IF semicolon /\ r.showSemicolons
               THEN fillText(setFillStyle(s1, colors.punctuation), literal(";"),
                             x + measureText(text), y, path)
               ELSE s1]

renderVariableStatement(r, node, path, x, y, indentLevel, nestingDepth, st) ==
    renderLine(r, node, path, x + indentLevel * indent, y, colors.default, TRUE, st)

renderExpressionStatement(r, node, path, x, y, indentLevel, nestingDepth, st) ==
    renderNode(r, node.children[1], Append(path, 1), x + indentLevel * indent, y,
               indentLevel, nestingDepth, st)

renderReturnStatement(r, node, path, x, y, indentLevel, nestingDepth, st) ==
    LET indentX == x + indentLevel * indent
        s1 == fillText(setFillStyle(st, colors.keyword), literal("return"), indentX, y, path)
        x1 == indentX + measureText(literal("return"))
        hasExpression == node.children # <<>>
        expressionText == getText(" ", node.children[1], Append(path, 1))
        s2 == IF hasExpression
              THEN fillText(setFillStyle(s1, colors.default), expressionText, x1, y, path)
              ELSE s1
        x2 == IF hasExpression THEN x1 + measureText(expressionText) ELSE x1
    IN [y |-> y + lineHeight,
        st |-> IF r.showSemicolons
               THEN fillText(setFillStyle(s2, colors.punctuation), literal(";"), x2, y, path)
               ELSE s2]

renderCallExpression(r, node, path, x, y, indentLevel, nestingDepth, st) ==
    renderLine(r, node, path, x, y, colors.default, TRUE, st)

renderBinaryExpression(r, node, path, x, y, indentLevel, nestingDepth, st) ==
    renderLine(r, node, path, x, y, colors.default, FALSE, st)

renderIdentifier(r, node, path, x, y, indentLevel, nestingDepth, st) ==
    renderLine(r, node, path, x, y, colors.identifier, FALSE, st)

renderStringLiteral(r, node, path, x, y, indentLevel, nestingDepth, st) ==
    renderLine(r, node, path, x, y, colors.string, FALSE, st)

renderGenericNode(r, node, path, x, y, indentLevel, nestingDepth, st) ==
    IF textLength(node) < 100 /\ ~spansLines(node)
    THEN [y |-> y + lineHeight,
          st |-> fillText(st, getText("", node, path), x + indentLevel * indent, y, path)]
    ELSE renderEach(r, node, path, indices(node), x, y, indentLevel,
                    childDepth(node, nestingDepth), 0, st)

\* the switch on node.kind, entered with the position and the context that
\* the statements before have left
renderNode(r, node, path, x, y, indentLevel, nestingDepth, st) ==
    With([x |-> x, y |-> y, st |-> st], LAMBDA at :
       IF ~at.st.sourceFile THEN [y |-> at.y, st |-> at.st]
       ELSE
       CASE node.kind = "SourceFile" ->
              renderSourceFile(r, node, path, at.x, at.y, indentLevel, nestingDepth,
                  visit(at.st, path))
         [] node.kind = "FunctionDeclaration" ->
              renderFunctionDeclaration(r, node, path, at.x, at.y, indentLevel, nestingDepth,
                  visit(at.st, path))
         [] node.kind = "VariableStatement" ->
              renderVariableStatement(r, node, path, at.x, at.y, indentLevel, nestingDepth,
                  visit(at.st, path))
         [] node.kind = "ExpressionStatement" ->
              renderExpressionStatement(r, node, path, at.x, at.y, indentLevel, nestingDepth,
                  visit(at.st, path))
         [] node.kind = "ReturnStatement" ->
              renderReturnStatement(r, node, path, at.x, at.y, indentLevel, nestingDepth,
                  visit(at.st, path))
         [] node.kind = "Block" ->
              renderBlock(r, node, path, at.x, at.y, indentLevel, nestingDepth,
                  visit(at.st, path))
         [] node.kind = "IfStatement" ->
              renderIfStatement(r, node, path, at.x, at.y, indentLevel, nestingDepth,
                  visit(at.st, path))
         [] node.kind = "CallExpression" ->
              renderCallExpression(r, node, path, at.x, at.y, indentLevel, nestingDepth,
                  visit(at.st, path))
         [] node.kind = "BinaryExpression" ->
              renderBinaryExpression(r, node, path, at.x, at.y, indentLevel, nestingDepth,
                  visit(at.st, path))
         [] node.kind = "Identifier" ->
              renderIdentifier(r, node, path, at.x, at.y, indentLevel, nestingDepth,
                  visit(at.st, path))
         [] node.kind = "StringLiteral" ->
              renderStringLiteral(r, node, path, at.x, at.y, indentLevel, nestingDepth,
                  visit(at.st, path))
         [] OTHER ->
              renderGenericNode(r, node, path, at.x, at.y, indentLevel, nestingDepth,
                  visit(at.st, path)))

\* ------------------------------------------------------------------------
\* State
\* ------------------------------------------------------------------------
VARIABLES
    renderer,   \* fields of the ASTCanvasRenderer instance
    page,       \* React state of DionPage: code, ast, maxNestingDepth, zoomLevel
    timers,     \* pending setTimeout callbacks, in due order per edit
    markers,    \* TRUE iff Monaco currently holds an Error marker
    drag,       \* pointer position and panOffset at the latest mousedown
    lastEvent,  \* the event handled by the latest step, with what it passed on
    canvas      \* a renderer with its tree, its 2d context and what it painted

vars == <<renderer, page, timers, markers, drag, lastEvent, canvas>>

wheelThreshold == 100

WheelDeltas == {-250, -50, 50, 250}

Coords == 0..MaxCoord

Abs(n) == IF n < 0 THEN -n ELSE n

Min(a, b) == IF a < b THEN a ELSE b

Max(a, b) == IF a > b THEN a ELSE b

\* pointer positions: the whole grid, and its diagonal
Grid == Coords \X Coords

Diagonal == {<<c, c>> : c \in Coords}

\* no drag in progress
NoDrag == [x |-> 0, y |-> 0, panX |-> 0, panY |-> 0, moves |-> 0]

Ev(type) == [type |-> type, deltaY |-> 0, x |-> 0, y |-> 0, discarded |-> 0,
             notified |-> <<>>, zoomSet |-> <<>>, accepted |-> NoAst,
             paints |-> <<>>]

\* ------------------------------------------------------------------------
\* ASTCanvasRenderer
\* ------------------------------------------------------------------------
\* settings is a function whose domain holds the fields that are not undefined
updateSettings(r, settings) ==
    LET r1 == IF "zoomLevel" \in DOMAIN settings
              THEN [r EXCEPT !.zoomLevel = settings.zoomLevel] ELSE r
    IN IF "maxNestingDepth" \in DOMAIN settings
       THEN [r1 EXCEPT !.maxNestingDepth = settings.maxNestingDepth] ELSE r1

render(r, ast) == IF ast = NoAst THEN r ELSE [r EXCEPT !.currentAst = ast]

redraw(r) == IF r.currentAst # NoAst THEN render(r, r.currentAst) ELSE r

\* what one paint pass reads: the tree it is given and the viewport fields
snapshot(r) == [ast |-> r.currentAst, zoomLevel |-> r.zoomLevel,
                maxNestingDepth |-> r.maxNestingDepth,
                panX |-> r.panX, panY |-> r.panY]

\* the paint passes a call of render / redraw performs (none without a tree)
renderPaints(r, ast) == IF ast = NoAst THEN <<>> ELSE <<snapshot(render(r, ast))>>

redrawPaints(r) == IF r.currentAst # NoAst THEN renderPaints(r, r.currentAst) ELSE <<>>

\* wheel with a strict comparison against the threshold
wheel_strict(r, deltaY) ==
    LET acc == r.wheelDelta + deltaY
    IN IF Abs(acc) > wheelThreshold
       THEN LET z == IF acc < 0 THEN Min(r.maxNestingDepth, r.zoomLevel + 1)
                                ELSE Max(1, r.zoomLevel - 1)
            IN [r |-> redraw([r EXCEPT !.zoomLevel = z, !.wheelDelta = 0]),
                notified |-> IF r.onZoomChange THEN <<z>> ELSE <<>>,
                paints |-> redrawPaints([r EXCEPT !.zoomLevel = z, !.wheelDelta = 0])]
       ELSE [r |-> [r EXCEPT !.wheelDelta = acc], notified |-> <<>>, paints |-> <<>>]

\* wheel that changes the level without telling the listener
wheel_silent(r, deltaY) ==
    LET acc == r.wheelDelta + deltaY
    IN IF Abs(acc) >= wheelThreshold
       THEN LET z == IF acc < 0 THEN Min(r.maxNestingDepth, r.zoomLevel + 1)
                                ELSE Max(1, r.zoomLevel - 1)
            IN [r |-> redraw([r EXCEPT !.zoomLevel = z, !.wheelDelta = 0]),
                notified |-> <<>>,
                paints |-> redrawPaints([r EXCEPT !.zoomLevel = z, !.wheelDelta = 0])]
       ELSE [r |-> [r EXCEPT !.wheelDelta = acc], notified |-> <<>>, paints |-> <<>>]

\* the wheel listener; yields the renderer and the values given to onZoomChange
wheel(r, deltaY) ==
    LET acc == r.wheelDelta + deltaY
    IN IF Abs(acc) >= wheelThreshold
       THEN LET z == IF acc < 0 THEN Min(r.maxNestingDepth, r.zoomLevel + 1)
                                ELSE Max(1, r.zoomLevel - 1)
            IN [r |-> redraw([r EXCEPT !.zoomLevel = z, !.wheelDelta = 0]),
                notified |-> IF r.onZoomChange THEN <<z>> ELSE <<>>,
                paints |-> redrawPaints([r EXCEPT !.zoomLevel = z, !.wheelDelta = 0])]
       ELSE [r |-> [r EXCEPT !.wheelDelta = acc], notified |-> <<>>, paints |-> <<>>]

mousedown(r, x, y) == [r EXCEPT !.isPanning = TRUE, !.lastMouseX = x, !.lastMouseY = y]

\* mousemove that keeps measuring from the position of the mousedown
mousemove_stale(r, x, y) ==
    IF r.isPanning
    THEN redraw([r EXCEPT !.panX = r.panX + (x - r.lastMouseX),
                          !.panY = r.panY + (y - r.lastMouseY)])
    ELSE r

\* mousemove that pans whether or not a button is held
mousemove_unguarded(r, x, y) ==
    redraw([r EXCEPT !.panX = r.panX + (x - r.lastMouseX),
                     !.panY = r.panY + (y - r.lastMouseY),
                     !.lastMouseX = x, !.lastMouseY = y])

mousemove(r, x, y) ==
    IF r.isPanning
    THEN redraw([r EXCEPT !.panX = r.panX + (x - r.lastMouseX),
                          !.panY = r.panY + (y - r.lastMouseY),
                          !.lastMouseX = x, !.lastMouseY = y])
    ELSE r

mousemovePaints(r, x, y) ==
    IF r.isPanning THEN redrawPaints(mousemove(r, x, y)) ELSE <<>>

stopPanning(r) == [r EXCEPT !.isPanning = FALSE]

\* mouseleave that only ends panning
handleMouseLeave_keep(r) == [r EXCEPT !.isPanning = FALSE]

handleMouseLeave(r) == [r EXCEPT !.isPanning = FALSE, !.wheelDelta = 0]

\* ------------------------------------------------------------------------
\* DionPage
\* ------------------------------------------------------------------------
\* The two effects that push React state into the renderer after a commit.
\* astNew: the commit stored a freshly parsed tree (a new object identity).
settingsEffect(r, old, new, astNew) ==
    IF astNew \/ old.maxNestingDepth # new.maxNestingDepth
    THEN render(updateSettings(r, [maxNestingDepth |-> new.maxNestingDepth]), new.ast)
    ELSE r

zoomEffect(r, old, new, astNew) ==
    IF astNew \/ old.zoomLevel # new.zoomLevel
    THEN render(updateSettings(r, [zoomLevel |-> new.zoomLevel]), new.ast)
    ELSE r

commit(r, old, new, astNew) ==
    zoomEffect(settingsEffect(r, old, new, astNew), old, new, astNew)

\* the paint passes of the two effects, in the order the effects run
settingsEffectPaints(r, old, new, astNew) ==
    IF astNew \/ old.maxNestingDepth # new.maxNestingDepth
    THEN renderPaints(updateSettings(r, [maxNestingDepth |-> new.maxNestingDepth]), new.ast)
    ELSE <<>>

zoomEffectPaints(r, old, new, astNew) ==
    IF astNew \/ old.zoomLevel # new.zoomLevel
    THEN renderPaints(updateSettings(r, [zoomLevel |-> new.zoomLevel]), new.ast)
    ELSE <<>>

commitPaints(r, old, new, astNew) ==
    settingsEffectPaints(r, old, new, astNew)
        \o zoomEffectPaints(settingsEffect(r, old, new, astNew), old, new, astNew)

zoomPushed(old, new, astNew) ==
    IF astNew \/ old.zoomLevel # new.zoomLevel THEN <<new.zoomLevel>> ELSE <<>>

hasSyntaxErrors == markers

\* ------------------------------------------------------------------------
\* The renderer with its canvas: tree, settings, 2d context, latest paint
\* ------------------------------------------------------------------------
NoPaint == [cmds |-> <<>>, visited |-> {}, tested |-> {}, y |-> 0, zoomLevel |-> 0]

\* the renderer with its brace and semicolon settings, before the tree ast
\* has been parsed
newCanvas(ast, showBraces, showSemicolons) ==
    [ast |-> ast, loaded |-> FALSE, maxNestingDepth |-> 1, zoomLevel |-> 1,
     showBraces |-> showBraces, showSemicolons |-> showSemicolons,
     fillStyle |-> "#000000", out |-> NoPaint, first |-> NoPaint, between |-> FALSE]

\* a paint pass that neither saves the context nor sets its fill colour
paint_leaky(c) ==
    LET st0 == [cmds |-> <<>>, fillStyle |-> c.fillStyle, visited |-> {}, tested |-> {},
                sourceFile |-> TRUE]
    IN With(renderNode(c, c.ast, <<>>, originX, 20, 0, 1, st0), LAMBDA res :
            [c EXCEPT !.fillStyle = res.st.fillStyle,
                      !.out = [cmds |-> res.st.cmds, visited |-> res.st.visited,
                               tested |-> res.st.tested, y |-> res.y,
                               zoomLevel |-> c.zoomLevel]])

\* render(ast, sourceFile): ctx.save(), fillStyle "#333", renderNode from
\* (20, 20) at indent level 0 and nesting depth 1, ctx.restore()
paint(c) ==
    LET saved == c.fillStyle
        st0 == [cmds |-> <<>>, fillStyle |-> serialised("#333"), visited |-> {},
                tested |-> {}, sourceFile |-> TRUE]
    IN With(renderNode(c, c.ast, <<>>, originX, 20, 0, 1, st0), LAMBDA res :
            [c EXCEPT !.fillStyle = saved,
                      !.out = [cmds |-> res.st.cmds, visited |-> res.st.visited,
                               tested |-> res.st.tested, y |-> res.y,
                               zoomLevel |-> c.zoomLevel]])

\* keeps the first paint pass it is asked to keep, and notes when a later
\* pass ran at another zoom level
remember(c, keep) ==
    IF c.first = NoPaint
    THEN IF keep THEN [c EXCEPT !.first = c.out] ELSE c
    ELSE [c EXCEPT !.between = c.between \/ c.out.zoomLevel # c.first.zoomLevel]

Init ==
    /\ canvas = newCanvas(ExprProgram, TRUE, TRUE)
    /\ renderer = [zoomLevel |-> 1, maxNestingDepth |-> 1, wheelDelta |-> 0,
                   panX |-> 0, panY |-> 0, isPanning |-> FALSE,
                   lastMouseX |-> 0, lastMouseY |-> 0,
                   currentAst |-> NoAst, onZoomChange |-> TRUE]
    /\ page = [code |-> 1, ast |-> NoAst, maxNestingDepth |-> 1, zoomLevel |-> 1]
    /\ timers = << [kind |-> "initial", code |-> 1, zoomLevel |-> 1] >>
    /\ markers = FALSE
    /\ drag = NoDrag
    /\ lastEvent = Ev("mount")

\* --- renderer events -----------------------------------------------------
Wheel ==
    \E deltaY \in WheelDeltas :
        LET w == wheel(renderer, deltaY)
            new == IF w.notified # <<>>
                   THEN [page EXCEPT !.zoomLevel = w.notified[1]] ELSE page
        IN /\ renderer' = commit(w.r, page, new, FALSE)
           /\ page' = new
           /\ lastEvent' = [Ev("wheel") EXCEPT !.deltaY = deltaY,
                                               !.notified = w.notified,
                                               !.zoomSet = zoomPushed(page, new, FALSE),
                                               !.paints = w.paints \o
                                                   commitPaints(w.r, page, new, FALSE)]
           /\ UNCHANGED <<timers, markers, drag, canvas>>

MouseDownAt(P) ==
    \E p \in P :
        /\ renderer' = mousedown(renderer, p[1], p[2])
        /\ drag' = [x |-> p[1], y |-> p[2], panX |-> renderer.panX,
                    panY |-> renderer.panY, moves |-> 0]
        /\ lastEvent' = [Ev("mousedown") EXCEPT !.x = p[1], !.y = p[2]]
        /\ UNCHANGED <<page, timers, markers, canvas>>

MouseMoveAt(P) ==
    \E p \in P :
        /\ renderer' = mousemove(renderer, p[1], p[2])
        /\ Abs(renderer'.panX) <= MaxPan
        /\ Abs(renderer'.panY) <= MaxPan
        /\ drag' = IF renderer.isPanning
                   THEN [drag EXCEPT !.moves = Min(MaxMoves, drag.moves + 1)]
                   ELSE drag
        /\ lastEvent' = [Ev("mousemove") EXCEPT !.x = p[1], !.y = p[2],
                                   !.paints = mousemovePaints(renderer, p[1], p[2])]
        /\ UNCHANGED <<page, timers, markers, canvas>>

MouseDown == MouseDownAt(Grid)

MouseMove == MouseMoveAt(Grid)

MouseDownDiagonal == MouseDownAt(Diagonal)

MouseMoveDiagonal == MouseMoveAt(Diagonal)

MouseUp ==
    /\ renderer' = stopPanning(renderer)
    /\ drag' = NoDrag
    /\ lastEvent' = Ev("mouseup")
    /\ UNCHANGED <<page, timers, markers, canvas>>

MouseLeave ==
    /\ renderer' = handleMouseLeave(renderer)
    /\ drag' = NoDrag
    /\ lastEvent' = [Ev("mouseleave") EXCEPT !.discarded = renderer.wheelDelta]
    /\ UNCHANGED <<page, timers, markers, canvas>>

\* --- page events ---------------------------------------------------------
\* the range input: min 1, max maxNestingDepth, disabled when max <= 1
Slider ==
    /\ page.maxNestingDepth > 1
    /\ \E v \in 1..page.maxNestingDepth :
        /\ v # page.zoomLevel
        /\ LET new == [page EXCEPT !.zoomLevel = v]
           IN /\ page' = new
              /\ renderer' = commit(renderer, page, new, FALSE)
              /\ lastEvent' = [Ev("slider") EXCEPT
                                   !.zoomSet = zoomPushed(page, new, FALSE),
                                   !.paints = commitPaints(renderer, page, new, FALSE)]
    /\ UNCHANGED <<timers, markers, drag, canvas>>

\* Editor onChange -> autoGenerateAST(newCode): setCode and the 300ms timer;
\* the re-render then runs useEffect([code]), which sets the 100ms timer.
\* The 100ms timer of an edit is due before its 300ms timer.
autoGenerateAST(newCode) ==
    /\ page' = [page EXCEPT !.code = newCode]
    /\ timers' = timers \o << [kind |-> "initial", code |-> newCode,
                               zoomLevel |-> page.zoomLevel],
                              [kind |-> "auto", code |-> newCode,
                               zoomLevel |-> page.zoomLevel] >>
    /\ lastEvent' = Ev("edit")
    /\ UNCHANGED <<renderer, markers, drag, canvas>>

\* an edit while callbacks of earlier edits may still be pending
Edit ==
    /\ Len(timers) + 2 <= MaxTimers
    /\ \E newCode \in TextIds \ {page.code} : autoGenerateAST(newCode)

\* an edit made after the callbacks of the earlier edits have run
EditIdle ==
    /\ timers = <<>>
    /\ \E newCode \in TextIds \ {page.code} : autoGenerateAST(newCode)

\* Monaco's TypeScript worker publishes the markers of the current text
Diagnostics ==
    /\ markers # Sources[page.code].err
    /\ markers' = Sources[page.code].err
    /\ lastEvent' = Ev("diagnostics")
    /\ UNCHANGED <<renderer, page, timers, drag, canvas>>

Remove(s, i) == SubSeq(s, 1, i - 1) \o SubSeq(s, i + 1, Len(s))

\* the 100ms callback of useEffect([code]); callbacks of equal delay run in
\* the order they were set, and one may overtake the 300ms callback of an
\* earlier edit
InitialParseTimer ==
    \E i \in 1..Len(timers) :
        /\ timers[i].kind = "initial"
        /\ \A j \in 1..(i - 1) : timers[j].kind # "initial"
        /\ LET t == timers[i].code
               maxDepth == DepthOf(t)
               new == [page EXCEPT !.ast = t, !.maxNestingDepth = maxDepth,
                                   !.zoomLevel = maxDepth]
           IN /\ page' = new
              /\ renderer' = commit(renderer, page, new, TRUE)
              /\ lastEvent' = [Ev("initialParse") EXCEPT
                                   !.zoomSet = zoomPushed(page, new, TRUE),
                                   !.accepted = t,
                                   !.paints = commitPaints(renderer, page, new, TRUE)]
        /\ timers' = Remove(timers, i)
        /\ UNCHANGED <<markers, drag, canvas>>

\* the 300ms callback of autoGenerateAST; it runs after every callback that
\* was due before it
AutoParseTimer ==
    /\ timers # <<>>
    /\ timers[1].kind = "auto"
    /\ timers' = Tail(timers)
    /\ IF hasSyntaxErrors
       THEN /\ lastEvent' = Ev("autoParse")
            /\ UNCHANGED <<renderer, page>>
       ELSE LET t == timers[1].code
                maxDepth == DepthOf(t)
                new == [page EXCEPT !.ast = t, !.maxNestingDepth = maxDepth,
                                    !.zoomLevel = IF timers[1].zoomLevel > maxDepth
                                                  THEN maxDepth ELSE page.zoomLevel]
            IN /\ page' = new
               /\ renderer' = commit(renderer, page, new, TRUE)
               /\ lastEvent' = [Ev("autoParse") EXCEPT
                                    !.zoomSet = zoomPushed(page, new, TRUE),
                                    !.accepted = t,
                                    !.paints = commitPaints(renderer, page, new, TRUE)]
    /\ UNCHANGED <<markers, drag, canvas>>

\* Every event, with the user editing no faster than the parse callbacks
\* run and the pointer moving along the diagonal.
Next ==
    \/ Wheel
    \/ MouseDownDiagonal
    \/ MouseMoveDiagonal
    \/ MouseUp
    \/ MouseLeave
    \/ Slider
    \/ EditIdle
    \/ Diagnostics
    \/ InitialParseTimer
    \/ AutoParseTimer

Spec == Init /\ [][Next]_vars

\* The page without pointer input: edits may overlap their callbacks.
NextPage ==
    \/ Wheel
    \/ Slider
    \/ Edit
    \/ Diagnostics
    \/ InitialParseTimer
    \/ AutoParseTimer

SpecPage == Init /\ [][NextPage]_vars

\* The canvas under pointer and wheel input before the first tree arrives.
NextPointer ==
    \/ Wheel
    \/ MouseDown
    \/ MouseMove
    \/ MouseUp
    \/ MouseLeave

SpecPointer == Init /\ [][NextPointer]_vars

\* --- the canvas on its own -------------------------------------------------
App == <<renderer, page, timers, markers, drag, lastEvent>>

\* the parse callback: calculateMaxNestingDepth, setMaxNestingDepth and
\* setZoomLevel(maxDepth); the settings effect paints, then the zoom effect
ParseTree ==
    /\ ~canvas.loaded
    /\ \E keep \in BOOLEAN :
        LET maxDepth == calculateMaxNestingDepth(canvas.ast)
            c1 == paint([canvas EXCEPT !.loaded = TRUE, !.maxNestingDepth = maxDepth])
            c2 == paint([c1 EXCEPT !.zoomLevel = maxDepth])
        IN canvas' = remember(c2, keep)
    /\ UNCHANGED App

\* the zoom slider: setZoomLevel, then the zoom effect paints
ZoomTo ==
    /\ canvas.loaded
    /\ \E v \in 1..canvas.maxNestingDepth, keep \in BOOLEAN :
        /\ v # canvas.zoomLevel
        /\ canvas' = remember(paint([canvas EXCEPT !.zoomLevel = v]), keep)
    /\ UNCHANGED App

\* redraw(), as the pan and wheel listeners call it
Redraw ==
    /\ canvas.loaded
    /\ \E keep \in BOOLEAN : canvas' = remember(paint(canvas), keep)
    /\ UNCHANGED App

InitCanvas ==
    /\ canvas \in {newCanvas(ast, b, s) : ast \in Programs, b \in BOOLEAN, s \in BOOLEAN}
    /\ renderer = [zoomLevel |-> 1, maxNestingDepth |-> 1, wheelDelta |-> 0,
                   panX |-> 0, panY |-> 0, isPanning |-> FALSE,
                   lastMouseX |-> 0, lastMouseY |-> 0,
                   currentAst |-> NoAst, onZoomChange |-> TRUE]
    /\ page = [code |-> 1, ast |-> NoAst, maxNestingDepth |-> 1, zoomLevel |-> 1]
    /\ timers = <<>>
    /\ markers = FALSE
    /\ drag = NoDrag
    /\ lastEvent = Ev("mount")

NextCanvas ==
    \/ ParseTree
    \/ ZoomTo
    \/ Redraw

SpecCanvas == InitCanvas /\ [][NextCanvas]_vars

\* ------------------------------------------------------------------------
\* Properties
\* ------------------------------------------------------------------------
Clamp(v, lo, hi) == IF v < lo THEN lo ELSE IF v > hi THEN hi ELSE v

\* accumulated delta and zoom direction of the wheel event of the current step
AccOfStep == renderer.wheelDelta + lastEvent'.deltaY

DirOfStep == IF AccOfStep < 0 THEN 1 ELSE -1

\* C1: in every reachable state zoomLevel is within 1..maxNestingDepth.
C1_ZoomInRange == renderer.zoomLevel \in 1..renderer.maxNestingDepth

\* C2: every zoom level handed to updateSettings is applied clamped to
\* [1, maxNestingDepth]; the accumulated wheel delta is left alone unless
\* the wheel itself caused the push.
C2_ZoomSetClamped ==
    [][lastEvent'.zoomSet # <<>> =>
        /\ renderer'.zoomLevel =
               Clamp(lastEvent'.zoomSet[1], 1, renderer'.maxNestingDepth)
        /\ lastEvent'.type # "wheel" => renderer'.wheelDelta = renderer.wheelDelta]_vars

\* C3: a wheel event that reaches the threshold resets the accumulator and
\* moves zoomLevel one level in the indicated direction, clamped to
\* [1, maxNestingDepth]; no wheel event moves zoomLevel by more than one
\* level or against the indicated direction.
C3_WheelOneStep ==
    [][lastEvent'.type = "wheel" =>
        /\ Abs(AccOfStep) >= wheelThreshold =>
              /\ renderer'.wheelDelta = 0
              /\ renderer'.zoomLevel =
                     Clamp(renderer.zoomLevel + DirOfStep, 1, renderer.maxNestingDepth)
        /\ Abs(renderer'.zoomLevel - renderer.zoomLevel) <= 1
        /\ (renderer'.zoomLevel - renderer.zoomLevel) * DirOfStep >= 0]_vars

\* C4 (as stated): a wheel event that keeps the accumulation below the
\* threshold changes no zoom level; one that brings the accumulation to
\* exactly the threshold changes the zoom level and leaves the accumulator 0.
C4_ExactlyOneChange ==
    [][lastEvent'.type = "wheel" =>
        /\ Abs(AccOfStep) < wheelThreshold => renderer'.zoomLevel = renderer.zoomLevel
        /\ Abs(AccOfStep) = wheelThreshold =>
              /\ renderer'.zoomLevel # renderer.zoomLevel
              /\ renderer'.wheelDelta = 0]_vars

\* C4 (amended): below the threshold a wheel event only accumulates: no zoom
\* change and no notification; at exactly the threshold the accumulator is
\* reset to 0 and zoomLevel takes one step cut at the boundary, to
\* min(maxNestingDepth, zoomLevel + 1) for a negative accumulation and to
\* max(1, zoomLevel - 1) for a positive one.
C4_Hysteresis ==
    [][lastEvent'.type = "wheel" =>
        /\ Abs(AccOfStep) < wheelThreshold =>
              /\ renderer'.zoomLevel = renderer.zoomLevel
              /\ renderer'.wheelDelta = AccOfStep
              /\ lastEvent'.notified = <<>>
        /\ Abs(AccOfStep) = wheelThreshold =>
              /\ renderer'.wheelDelta = 0
              /\ renderer'.zoomLevel =
                     IF AccOfStep < 0
                     THEN Min(renderer.maxNestingDepth, renderer.zoomLevel + 1)
                     ELSE Max(1, renderer.zoomLevel - 1)]_vars

\* two wheel events of 50 have brought the accumulation to exactly 100
C4_Witness ==
    /\ lastEvent.type = "wheel"
    /\ Abs(lastEvent.deltaY) < wheelThreshold
    /\ lastEvent.notified # <<>>
    /\ renderer.wheelDelta = 0

\* C5: a parse result that replaces the tree being rendered leaves the zoom
\* level as it was when that is within the new maximum depth M, and sets it
\* to M otherwise.
C5_ZoomPreserved ==
    [][(lastEvent'.accepted # NoAst /\ renderer.currentAst # NoAst) =>
        renderer'.zoomLevel =
            IF renderer.zoomLevel <= DepthOf(lastEvent'.accepted)
            THEN renderer.zoomLevel ELSE DepthOf(lastEvent'.accepted)]_vars

\* C6: a wheel event that changes zoomLevel hands the new level to the
\* listener, once, and the listener (setZoomLevel) stores it; a wheel event
\* below the threshold does not call the listener.
C6_WheelNotifies ==
    [][lastEvent'.type = "wheel" =>
        /\ renderer'.zoomLevel # renderer.zoomLevel =>
              lastEvent'.notified = <<renderer'.zoomLevel>>
        /\ Abs(AccOfStep) < wheelThreshold => lastEvent'.notified = <<>>
        /\ Len(lastEvent'.notified) <= 1
        /\ lastEvent'.notified # <<>> => page'.zoomLevel = renderer'.zoomLevel]_vars

\* the wheel has just moved the level to one strictly inside the range
C6_Witness ==
    /\ lastEvent.type = "wheel"
    /\ lastEvent.notified = <<renderer.zoomLevel>>
    /\ 1 < renderer.zoomLevel
    /\ renderer.zoomLevel < renderer.maxNestingDepth

\* C7: while panning, panOffset has grown since the mousedown at p0 by
\* exactly pN - p0, pN being the position of the latest pointer event.
C7_PanAccumulation ==
    (renderer.isPanning /\ lastEvent.type \in {"mousedown", "mousemove"}) =>
        /\ renderer.panX - drag.panX = lastEvent.x - drag.x
        /\ renderer.panY - drag.panY = lastEvent.y - drag.y

\* a drag of several mousemove events that has moved the pan offset
C7_Witness ==
    /\ renderer.isPanning
    /\ lastEvent.type = "mousemove"
    /\ drag.moves = MaxMoves
    /\ renderer.panX # drag.panX
    /\ renderer.panY = drag.panY

\* C8: only a mousemove handled while isPanning changes panX or panY.
C8_PanFrame ==
    [][(renderer'.panX # renderer.panX \/ renderer'.panY # renderer.panY) =>
        (lastEvent'.type = "mousemove" /\ renderer.isPanning)]_vars

\* a re-parse has replaced the tree while the pan offset was not zero
C8_Witness ==
    /\ lastEvent.type = "autoParse"
    /\ lastEvent.accepted # NoAst
    /\ renderer.currentAst = lastEvent.accepted
    /\ renderer.panX # 0

\* C9: mouseup and mouseleave end panning; mouseleave also clears the
\* accumulated wheel delta, so the next wheel event counts from zero.
C9_LeaveResets ==
    [][/\ lastEvent'.type = "mouseup" => ~renderer'.isPanning
       /\ lastEvent'.type = "mouseleave" =>
              (~renderer'.isPanning /\ renderer'.wheelDelta = 0)
       /\ (lastEvent.type = "mouseleave" /\ lastEvent'.type = "wheel"
           /\ Abs(lastEvent'.deltaY) < wheelThreshold) =>
              /\ renderer'.zoomLevel = renderer.zoomLevel
              /\ renderer'.wheelDelta = lastEvent'.deltaY]_vars

\* the pointer has left the canvas with a partial wheel gesture pending
C9_Witness ==
    /\ lastEvent.type = "mouseleave"
    /\ lastEvent.discarded # 0
    /\ renderer.wheelDelta = 0
    /\ ~renderer.isPanning

\* C10: the tree being rendered is always the tree of a text without
\* syntax errors.
C10_OnlyErrorFree ==
    renderer.currentAst # NoAst => ~Sources[renderer.currentAst].err

\* C11: every paint pass observes the most recent tree together with the
\* most recent zoomLevel and maxNestingDepth: each paint pass of a step shows
\* the tree, the zoom level and the maximum depth that React state holds
\* once the step is over.
C11_PaintsCurrent ==
    \A i \in DOMAIN lastEvent.paints :
        /\ lastEvent.paints[i].ast = page.ast
        /\ lastEvent.paints[i].zoomLevel = page.zoomLevel
        /\ lastEvent.paints[i].maxNestingDepth = page.maxNestingDepth

\* --- the analyzer and the painter on their own ----------------------------
\* the paths (child indices from the root) of the nodes of a tree
RECURSIVE Paths(_)
Paths(node) ==
    {<<>>} \cup UNION { { <<i>> \o p : p \in Paths(node.children[i]) }
                       : i \in 1..Len(node.children) }

RECURSIVE NodeAt(_, _)
NodeAt(root, path) ==
    IF path = <<>> THEN root ELSE NodeAt(root.children[Head(path)], Tail(path))

Parent(path) == SubSeq(path, 1, Len(path) - 1)

\* an if statement that is the elseStatement of its parent if statement
IsElseIfLink(root, path) ==
    /\ path # <<>>
    /\ NodeAt(root, path).kind = "IfStatement"
    /\ NodeAt(root, Parent(path)).kind = "IfStatement"
    /\ NodeAt(root, Parent(path)).elseStatement = path[Len(path)]

\* a scope-introducing node that is not an else-if link
IsScope(root, path) ==
    isBlockScopeNode(NodeAt(root, path)) /\ ~IsElseIfLink(root, path)

\* the number of such nodes on the path from the root to the node, ends included
ScopesOn(root, path) ==
    Cardinality({k \in 0..Len(path) : IsScope(root, SubSeq(path, 1, k))})

\* e function declarations around three more, nested in one another
TripleProgram(e) ==
    SourceFile(<<Enclosed(e + 2, FnSig(<<VarPlain, Return>>)), CallStatement>>)

ChainProgram(e, k) == SourceFile(<<Enclosed(e, Chain(k))>>)

\* C12: calculateMaxNestingDepth returns 1 plus the largest number of
\* scope-introducing nodes that are not else-if links on a path from the
\* root to a node; the result is at least 1; three function declarations
\* nested in one another yield the depth of what encloses them plus 3.
C12_DepthCountsScopes ==
    canvas.loaded =>
        /\ canvas.maxNestingDepth =
               1 + SetMax({ScopesOn(canvas.ast, p) : p \in Paths(canvas.ast)})
        /\ canvas.maxNestingDepth >= 1
        /\ \A e \in 0..(MaxNest - 1) :
               canvas.ast = TripleProgram(e) => canvas.maxNestingDepth = (1 + e) + 3

\* three nested functions inside one enclosing function have been analysed
C12_Witness ==
    /\ canvas.loaded
    /\ canvas.ast = TripleProgram(1)
    /\ canvas.maxNestingDepth = 5

\* C13: an if / else if / else chain whose branches hold no scope has the
\* depth of the enclosing scope plus 1, whatever its number of else-if
\* links; `if(a){1}else if(b){2}else{3}` at top level has depth 2.
C13_ElseIfFlat ==
    canvas.loaded =>
        /\ \A e \in 0..MaxNest, k \in 0..MaxChain :
               canvas.ast = ChainProgram(e, k) => canvas.maxNestingDepth = (1 + e) + 1
        /\ canvas.ast = ElseIfProgram => canvas.maxNestingDepth = 2

\* the longest chain, inside one function, has been analysed
C13_Witness ==
    /\ canvas.loaded
    /\ canvas.ast = ChainProgram(1, MaxChain)
    /\ canvas.maxNestingDepth = 3

\* the placeholder lines of the latest paint pass: the nodes they stand for
Placeholders ==
    {canvas.out.cmds[i].node : i \in {j \in DOMAIN canvas.out.cmds :
                                        canvas.out.cmds[j].text.pre = "..."}}

PlaceholderLines ==
    Cardinality({j \in DOMAIN canvas.out.cmds : canvas.out.cmds[j].text.pre = "..."})

\* nodes of function f(){ if(a){ if(b){ return 1 } } }
FunctionF == <<1>>

OuterIf == <<1, 2, 1>>

OuterThen == <<1, 2, 1, 2>>

InnerIf == <<1, 2, 1, 2, 1>>

InnerThen == <<1, 2, 1, 2, 1, 2>>

ReturnOne == <<1, 2, 1, 2, 1, 2, 1>>

\* C14 (as stated): for function f(){ if(a){ if(b){ return 1 } } } the
\* maximum depth is 3; at zoom level 1 only the collapsed function is
\* painted; at 2 the body of the outer if is a placeholder; at 3 both ifs
\* and the return are painted without a placeholder.
C14_ScenarioAsStated ==
    (canvas.loaded /\ canvas.ast = NestedIfProgram) =>
        /\ canvas.maxNestingDepth = 3
        /\ canvas.zoomLevel = 1 =>
               (canvas.out.visited = {<<>>, FunctionF} /\ Placeholders = {FunctionF})
        /\ canvas.zoomLevel = 2 =>
               (OuterIf \in canvas.out.visited /\ InnerIf \notin canvas.out.visited
                /\ Placeholders = {OuterThen})
        /\ canvas.zoomLevel = 3 =>
               ({OuterIf, InnerIf, ReturnOne} \subseteq canvas.out.visited
                /\ Placeholders = {})

\* C14 (amended): the maximum depth is 4; at zoom level 1 only the
\* collapsed function is painted (header and one placeholder); at 2 the
\* body of the outer if is one placeholder; at 3 the inner if is painted
\* with one placeholder for its body and the return is not painted; at 4
\* both ifs and the return are painted without a placeholder.
C14_Scenario ==
    (canvas.loaded /\ canvas.ast = NestedIfProgram) =>
        /\ canvas.maxNestingDepth = 4
        /\ canvas.zoomLevel = 1 =>
               (canvas.out.visited = {<<>>, FunctionF} /\ Placeholders = {FunctionF}
                /\ PlaceholderLines = 1)
        /\ canvas.zoomLevel = 2 =>
               (OuterIf \in canvas.out.visited /\ InnerIf \notin canvas.out.visited
                /\ Placeholders = {OuterThen} /\ PlaceholderLines = 1)
        /\ canvas.zoomLevel = 3 =>
               (InnerIf \in canvas.out.visited /\ ReturnOne \notin canvas.out.visited
                /\ Placeholders = {InnerThen} /\ PlaceholderLines = 1)
        /\ canvas.zoomLevel = 4 =>
               ({OuterIf, InnerIf, ReturnOne} \subseteq canvas.out.visited
                /\ Placeholders = {})

\* the scenario painted at zoom level 3, one level below its maximum
C14_Witness ==
    /\ canvas.loaded
    /\ canvas.ast = NestedIfProgram
    /\ canvas.zoomLevel = 3
    /\ canvas.out.zoomLevel = 3
    /\ Placeholders = {InnerThen}

IsPrefix(p, q) == Len(p) <= Len(q) /\ SubSeq(q, 1, Len(p)) = p

\* the depth the analyzer assigns to the node at path (its nodeDepth)
Depth(root, path) == 1 + ScopesOn(root, path)

\* the statements in the body of the node at path: what lies inside a Block
\* that is a child of the node
BodyNodes(root, path) ==
    {q \in Paths(root) :
        /\ Len(q) > Len(path) + 1
        /\ IsPrefix(path, q)
        /\ NodeAt(root, SubSeq(q, 1, Len(path) + 1)).kind = "Block"}

BodyBlocks(root, path) ==
    {Append(path, i) : i \in {j \in DOMAIN NodeAt(root, path).children :
                                  NodeAt(root, path).children[j].kind = "Block"}}

\* a node is painted by a pass when a routine was called with it or when a
\* text written by the pass is the source text of the node or of an ancestor
PaintedIn(out, q) ==
    \/ q \in out.visited
    \/ \E i \in DOMAIN out.cmds :
          out.cmds[i].text.src # <<>> /\ IsPrefix(out.cmds[i].text.src[1], q)

PaintedNodes(root, out) == {q \in Paths(root) : PaintedIn(out, q)}

PlaceholderLinesFor(nodes) ==
    Cardinality({j \in DOMAIN canvas.out.cmds :
                    canvas.out.cmds[j].text.pre = "..." /\ canvas.out.cmds[j].node \in nodes})

\* C15: in every paint pass, for every scope-introducing node (not an
\* else-if link) whose analyzer depth exceeds zoomLevel, nothing of the
\* node's body is visited or painted, and where the node itself is painted
\* exactly one placeholder line stands for each of its bodies, whatever
\* statement or expression the node occurs in.
C15_UniformTruncation ==
    canvas.loaded =>
        \A p \in Paths(canvas.ast) :
            (IsScope(canvas.ast, p) /\ Depth(canvas.ast, p) > canvas.zoomLevel) =>
                /\ \A q \in BodyNodes(canvas.ast, p) : ~PaintedIn(canvas.out, q)
                /\ PaintedIn(canvas.out, p) =>
                       \A b \in BodyBlocks(canvas.ast, p) : PlaceholderLinesFor({p, b}) = 1

Layer(root, q) ==
    1 + Cardinality({k \in 1..Len(q) :
                        /\ NodeAt(root, SubSeq(q, 1, k)).kind = "Block"
                        /\ isBlockScopeNode(NodeAt(root, SubSeq(q, 1, k - 1)))})

\* the nodes, Blocks aside, that the latest pass paints and the remembered
\* pass did not
NewlyPainted ==
    {q \in PaintedNodes(canvas.ast, canvas.out) \ PaintedNodes(canvas.ast, canvas.first) :
        NodeAt(canvas.ast, q).kind # "Block"}

\* C17: for a fixed tree and every n with 1 < n <= maxNestingDepth, the
\* paint at zoomLevel n expands at least one subtree that was a placeholder
\* at zoomLevel n - 1, and the nodes newly painted at n all lie at nesting
\* depth n.
C17_OneMoreLayer ==
    (/\ canvas.first # NoPaint
     /\ canvas.out.zoomLevel = canvas.first.zoomLevel + 1
     /\ canvas.out.zoomLevel <= canvas.maxNestingDepth) =>
        /\ \E i \in DOMAIN canvas.first.cmds :
              /\ canvas.first.cmds[i].text.pre = "..."
              /\ \E q \in NewlyPainted : IsPrefix(canvas.first.cmds[i].node, q)
        /\ \A q \in NewlyPainted : Layer(canvas.ast, q) = canvas.out.zoomLevel

\* C18: painting the same tree with the same zoomLevel, pan offset and
\* settings again, whatever passes ran in between, produces the same
\* sequence of paint commands (texts, positions, colours, order) and visits
\* the same nodes; a pass leaves the context's fill colour as it found it.
C18_Idempotent ==
    /\ (canvas.first # NoPaint /\ canvas.out.zoomLevel = canvas.first.zoomLevel) =>
           canvas.out = canvas.first
    /\ canvas.fillStyle = newCanvas(canvas.ast, TRUE, TRUE).fillStyle

\* a tree is painted again at the zoom level of the remembered pass after a
\* pass at another level, and the passes write text in several colours
C18_Witness ==
    /\ canvas.first # NoPaint
    /\ canvas.between
    /\ canvas.out.zoomLevel = canvas.first.zoomLevel
    /\ Cardinality({canvas.out.cmds[i].color : i \in DOMAIN canvas.out.cmds}) > 1
    /\ Placeholders # {}

\* the number of nested calls the analyzer and the painter need to reach the
\* deepest node of the tree
Height(root) == SetMax({Len(q) : q \in Paths(root)})

\* C19: the analyzer and the painter stop at a recursion-depth cap: on a tree
\* nested deeper than the cap the painter visits no node beyond the cap and
\* paints a placeholder there, and the analyzer reports a too-deep condition
\* instead of the depth of the levels beyond the cap.
C19_RecursionCapped ==
    (canvas.loaded /\ Height(canvas.ast) > SafetyCap /\ canvas.zoomLevel = canvas.maxNestingDepth) =>
        /\ \A q \in canvas.out.visited : Len(q) <= SafetyCap
        /\ Placeholders # {}
        /\ canvas.maxNestingDepth # SetMax({Depth(canvas.ast, q) : q \in Paths(canvas.ast)})

\* the construct a truncation test decides about: the function declaration
\* itself, or the owner of the tested branch or block
Owner(root, path) ==
    IF NodeAt(root, path).kind = "FunctionDeclaration" THEN path ELSE Parent(path)

\* C20: at every collapse point the depth the paint pass compares with
\* zoomLevel is the depth the analyzer assigns to the construct the test
\* decides about (an else-if link has the depth of the if that heads its
\* chain, a Block adds no level); so every tested depth is at most
\* maxNestingDepth, and at zoomLevel = maxNestingDepth no placeholder is
\* painted.
C20_DepthsAgree ==
    canvas.loaded =>
        /\ \A t \in canvas.out.tested :
              /\ t.depth = Depth(canvas.ast, Owner(canvas.ast, t.node))
              /\ t.depth <= canvas.maxNestingDepth
        /\ canvas.zoomLevel = canvas.maxNestingDepth => Placeholders = {}

\* at full zoom the pass has tested the branch of an else-if link, and a
\* block at the tree's full depth of three or more
C20_Witness ==
    /\ canvas.loaded
    /\ canvas.zoomLevel = canvas.maxNestingDepth
    /\ canvas.maxNestingDepth >= 3
    /\ \E t \in canvas.out.tested :
          IsElseIfLink(canvas.ast, Parent(t.node)) /\ t.depth >= 2
    /\ \E t \in canvas.out.tested :
          NodeAt(canvas.ast, t.node).kind = "Block" /\ t.depth = canvas.maxNestingDepth

\* the x of the first text that a pass writes for the node at path q or for
\* a node below it
FirstX(out, q) ==
    LET own == {i \in DOMAIN out.cmds : IsPrefix(q, out.cmds[i].node)}
    IN out.cmds[CHOOSE i \in own : \A j \in own : i <= j].x

\* the indent level of a statement: the number of Blocks around it
IndentLevel(root, q) ==
    Cardinality({k \in 0..(Len(q) - 1) : NodeAt(root, SubSeq(q, 1, k)).kind = "Block"})

\* the statements directly inside a Block for which the pass wrote text
PaintedStatements(root, out) ==
    {q \in Paths(root) :
        /\ q # <<>>
        /\ NodeAt(root, Parent(q)).kind = "Block"
        /\ \E i \in DOMAIN out.cmds : IsPrefix(q, out.cmds[i].node)}

\* C21: every statement painted directly inside a block at indent level L
\* starts at x0 + L * indent whatever its kind; the expression of an
\* expression statement (call, binary, identifier, string literal or a kind
\* left to the generic routine) starts where sibling variable and return
\* statements start.
C21_StatementsAligned ==
    canvas.loaded =>
        \A q \in PaintedStatements(canvas.ast, canvas.out) :
            FirstX(canvas.out, q) = originX + IndentLevel(canvas.ast, q) * indent

TypeOK ==
    /\ renderer.zoomLevel \in Int
    /\ page.ast \in TextIds \cup {NoAst}

====
